---- MODULE Spec2Model ----
(***************************************************************************)
(* MotoGP API client: the request pipeline (MotoGPClient.makeRequest), the *)
(* catalog of endpoint methods that delegate to it, the construction of   *)
(* the client, and the helper functions of types/results.ts.              *)
(*                                                                         *)
(* JavaScript strings that take part in URL construction are modelled as   *)
(* sequences of tokens: a token is one of the delimiters "/", "?", "#",    *)
(* "&", "=" or a word, a run of characters holding no delimiter (the dot   *)
(* segments ".." and "." are words).  Error messages are plain strings.   *)
(*                                                                         *)
(* A call runs from the catalog method to undici's request() in one step   *)
(* (the code up to the first await), then waits for the headers, then for  *)
(* the body, each wait limited by its own timer.                           *)
(***************************************************************************)
EXTENDS Integers, Sequences, FiniteSets, TLC

VARIABLES
    options,  \* the options object the client was constructed with
    client,   \* the MotoGPClient instance: baseURL, timeout, userAgent
    calls,    \* per call slot: the state of one catalog-method call
    helper,   \* the last call of a helper function: its arguments and result
    clock     \* the system clock: the months elapsed since January of FirstYear

vars == <<options, client, calls, helper, clock>>

-----------------------------------------------------------------------------
(* JavaScript values *)

Undefined == [kind |-> "undefined"]
Null == [kind |-> "null"]
Str(s) == [kind |-> "string", str |-> s]
Num(n) == [kind |-> "number", num |-> n]
Bool(b) == [kind |-> "boolean", bool |-> b]

\* ToBoolean, as used by the || of the constructor.
Truthy(v) ==
    CASE v.kind = "undefined" -> FALSE
      [] v.kind = "null" -> FALSE
      [] v.kind = "string" -> v.str # <<>>
      [] v.kind = "number" -> v.num # 0
      [] v.kind = "boolean" -> v.bool
      [] OTHER -> TRUE

\* a || b
OrElse(a, b) == IF Truthy(a) THEN a ELSE b

\* String(value), also the conversion of a template literal's ${...}.
StringOf(v) ==
    CASE v.kind = "undefined" -> <<"undefined">>
      [] v.kind = "null" -> <<"null">>
      [] v.kind = "string" -> v.str
      [] v.kind = "number" -> <<ToString(v.num)>>
      [] v.kind = "boolean" -> IF v.bool THEN <<"true">> ELSE <<"false">>

-----------------------------------------------------------------------------
(* The WHATWG URL operations the pipeline uses: new URL(endpoint, base),   *)
(* url.searchParams.set and url.toString().                                *)

Delims == {"/", "?", "#", "&", "="}
Schemes == {"https:", "http:"}

\* Index of the first occurrence of token d in s, 0 when there is none.
RECURSIVE IndexFrom(_, _, _)
IndexFrom(s, d, i) ==
    IF i > Len(s) THEN 0
    ELSE IF s[i] = d THEN i
    ELSE IndexFrom(s, d, i + 1)

IndexOf(s, d) == IndexFrom(s, d, 1)

Before(s, d) == IF IndexOf(s, d) = 0 THEN s ELSE SubSeq(s, 1, IndexOf(s, d) - 1)
After(s, d) == IF IndexOf(s, d) = 0 THEN <<>> ELSE SubSeq(s, IndexOf(s, d) + 1, Len(s))

\* s.split(d): the pieces of s between the occurrences of d.
RECURSIVE Split(_, _)
Split(s, d) ==
    IF IndexOf(s, d) = 0 THEN <<s>>
    ELSE <<Before(s, d)>> \o Split(After(s, d), d)

\* The pieces joined again with d between them.
RECURSIVE Join(_, _)
Join(ps, d) ==
    IF ps = <<>> THEN <<>>
    ELSE IF Len(ps) = 1 THEN ps[1]
    ELSE ps[1] \o <<d>> \o Join(Tail(ps), d)

\* Path state of the URL parser: the segments of the reference are appended
\* to the base path without its last segment; ".." removes a segment, "."
\* adds none, and either one in last position leaves a trailing empty segment.
RECURSIVE PathState(_, _)
PathState(path, segs) ==
    IF segs = <<>> THEN path
    ELSE LET seg == Head(segs)
             last == Len(segs) = 1
             shortened == IF path = <<>> THEN path ELSE SubSeq(path, 1, Len(path) - 1)
         IN  IF seg = <<"..">>
             THEN PathState(IF last THEN Append(shortened, <<>>) ELSE shortened, Tail(segs))
             ELSE IF seg = <<".">>
             THEN PathState(IF last THEN Append(path, <<>>) ELSE path, Tail(segs))
             ELSE PathState(Append(path, seg), Tail(segs))

\* The base address parsed on its own: scheme://host followed by a path.
BaseParses(b) ==
    /\ Len(b) >= 4
    /\ b[1] \in Schemes
    /\ b[2] = "/"
    /\ b[3] = "/"
    /\ b[4] \notin Delims

BasePath(b) ==
    LET rest == Before(Before(SubSeq(b, 5, Len(b)), "#"), "?")
    IN  IF rest = <<>> THEN <<<<>>>> ELSE Tail(Split(rest, "/"))

\* new URL(endpoint, base) for an endpoint that starts with a word followed
\* by "/" or by nothing (a path-relative reference, as every path template
\* of the catalog is): [ok |-> FALSE] stands for the TypeError it throws.
NewURL(endpoint, base) ==
    IF ~BaseParses(base) THEN [ok |-> FALSE]
    ELSE LET noFrag == Before(endpoint, "#")
             basePath == BasePath(base)
         IN  [ok |-> TRUE,
              scheme |-> base[1],
              host |-> base[4],
              path |-> PathState(SubSeq(basePath, 1, Len(basePath) - 1),
                                 Split(Before(noFrag, "?"), "/")),
              hasSearch |-> IndexOf(noFrag, "?") # 0,
              search |-> After(noFrag, "?"),
              hasFragment |-> IndexOf(endpoint, "#") # 0,
              fragment |-> After(endpoint, "#")]

\* application/x-www-form-urlencoded: the delimiters are percent-encoded.
EncodeToken(t) ==
    CASE t = "/" -> "%2F"
      [] t = "?" -> "%3F"
      [] t = "#" -> "%23"
      [] t = "&" -> "%26"
      [] t = "=" -> "%3D"
      [] OTHER -> t

DecodeToken(t) ==
    CASE t = "%2F" -> "/"
      [] t = "%3F" -> "?"
      [] t = "%23" -> "#"
      [] t = "%26" -> "&"
      [] t = "%3D" -> "="
      [] OTHER -> t

Encode(s) == [i \in 1..Len(s) |-> EncodeToken(s[i])]
Decode(s) == [i \in 1..Len(s) |-> DecodeToken(s[i])]

\* The name-value pairs of a query string (URLSearchParams parsing).
RECURSIVE PairsOf(_)
PairsOf(pieces) ==
    IF pieces = <<>> THEN <<>>
    ELSE IF Head(pieces) = <<>> THEN PairsOf(Tail(pieces))
    ELSE <<[name |-> Decode(Before(Head(pieces), "=")),
            value |-> Decode(After(Head(pieces), "="))]>> \o PairsOf(Tail(pieces))

ParseQuery(search) == PairsOf(Split(search, "&"))

\* The query string of a list of pairs (URLSearchParams serializing).
RECURSIVE PiecesOf(_)
PiecesOf(pairs) ==
    IF pairs = <<>> THEN <<>>
    ELSE <<Encode(Head(pairs).name) \o <<"=">> \o Encode(Head(pairs).value)>>
         \o PiecesOf(Tail(pairs))

SerializeQuery(pairs) == Join(PiecesOf(pairs), "&")

\* URLSearchParams.set on the list: the first pair of that name takes the
\* value and the others of that name are removed; a new name is appended.
RECURSIVE Without(_, _)
Without(pairs, name) ==
    IF pairs = <<>> THEN <<>>
    ELSE IF Head(pairs).name = name THEN Without(Tail(pairs), name)
    ELSE <<Head(pairs)>> \o Without(Tail(pairs), name)

RECURSIVE SetPair(_, _, _)
SetPair(pairs, name, value) ==
    IF pairs = <<>> THEN <<[name |-> name, value |-> value]>>
    ELSE IF Head(pairs).name = name
    THEN <<[name |-> name, value |-> value]>> \o Without(Tail(pairs), name)
    ELSE <<Head(pairs)>> \o SetPair(Tail(pairs), name, value)

\* url.searchParams.set(name, value): the URL's query is rewritten from the list.
SearchParamsSet(url, name, value) ==
    [url EXCEPT !.hasSearch = TRUE,
                !.search = SerializeQuery(SetPair(ParseQuery(url.search), name, value))]

\* url.toString()
Href(url) ==
    <<url.scheme, "/", "/", url.host, "/">>
        \o Join(url.path, "/")
        \o (IF url.hasSearch THEN <<"?">> \o url.search ELSE <<>>)
        \o (IF url.hasFragment THEN <<"#">> \o url.fragment ELSE <<>>)

-----------------------------------------------------------------------------
(* Construction *)

DefaultBaseURL == <<"https:", "/", "/", "api.motogp.pulselive.com", "/", "motogp", "/", "v1", "/">>
DefaultTimeout == 10000
DefaultUserAgent == "Mozilla/5.0 (Windows NT 10.0; Win64; x64) AppleWebKit/537.36 (KHTML, like Gecko) Chrome/125.0.0.0 Safari/537.36"

\* As MotoGPClient, with the userAgent option not read.
MotoGPClientDefaultAgent(opts) ==
    [baseURL |-> OrElse(opts.baseURL, Str(DefaultBaseURL)).str,
     timeout |-> OrElse(opts.timeout, Num(DefaultTimeout)).num,
     userAgent |-> <<DefaultUserAgent>>]

\* new MotoGPClient(options)
MotoGPClient(opts) ==
    [baseURL |-> OrElse(opts.baseURL, Str(DefaultBaseURL)).str,
     timeout |-> OrElse(opts.timeout, Num(DefaultTimeout)).num,
     userAgent |-> OrElse(opts.userAgent, Str(<<DefaultUserAgent>>)).str]

\* The option objects clients are constructed with: an omitted key reads as
\* undefined.  A user agent is never split, so it is a single word.
NoOptions == [baseURL |-> Undefined, timeout |-> Undefined, userAgent |-> Undefined]

OptionsSet ==
    { NoOptions,
      [NoOptions EXCEPT !.timeout = Num(15000)],
      [baseURL |-> Str(<<"https:", "/", "/", "custom.api.com">>),
       timeout |-> Num(5000), userAgent |-> Str(<<"Test-Client/1.0.0">>)],
      [NoOptions EXCEPT !.baseURL = Str(<<"https:", "/", "/", "nonexistent.api.com">>),
                        !.timeout = Num(1000)],
      [NoOptions EXCEPT !.baseURL = Str(<<"api.motogp.com", "/", "v1", "/">>)],
      [NoOptions EXCEPT !.baseURL = Str(<<>>), !.timeout = Num(0)],
      [NoOptions EXCEPT !.timeout = Num(-1)] }

-----------------------------------------------------------------------------
(* The catalog: each method's endpoint path and query-parameter object *)

Arg(args, i) == IF i <= Len(args) THEN args[i] ELSE Undefined

\* makeRequest(endpoint) and makeRequest(endpoint, {k1: v1, ...})
Path(endpoint) == [endpoint |-> endpoint, hasParams |-> FALSE, params |-> <<>>]
PathWith(endpoint, params) == [endpoint |-> endpoint, hasParams |-> TRUE, params |-> params]
Entry(key, value) == [key |-> <<key>>, value |-> value]

\* getClassification's params object: a key is added when its argument is
\* not undefined.
ClassificationParams(seasonYear, isTest) ==
    (IF seasonYear # Undefined THEN <<Entry("seasonYear", seasonYear)>> ELSE <<>>)
        \o (IF isTest # Undefined THEN <<Entry("test", isTest)>> ELSE <<>>)

Catalog(method, args) ==
    LET a1 == Arg(args, 1)
        a2 == Arg(args, 2)
        a3 == Arg(args, 3)
    IN  CASE method = "getLiveTiming" -> Path(<<"timing-gateway", "/", "livetiming-lite">>)
          [] method = "getSeasons" -> Path(<<"results", "/", "seasons">>)
          [] method = "getEvents" ->
                PathWith(<<"results", "/", "events">>, <<Entry("seasonUuid", a1)>>)
          [] method = "getEvent" -> Path(<<"results", "/", "events", "/">> \o StringOf(a1))
          [] method = "getSessions" ->
                PathWith(<<"results", "/", "sessions">>,
                         <<Entry("eventUuid", a1), Entry("categoryUuid", a2)>>)
          [] method = "getSession" -> Path(<<"results", "/", "sessions", "/">> \o StringOf(a1))
          [] method = "getClassification" ->
                PathWith(<<"results", "/", "session", "/">> \o StringOf(a1)
                             \o <<"/", "classification">>,
                         ClassificationParams(a2, a3))
          [] method = "getEntryList" ->
                PathWith(<<"event", "/">> \o StringOf(a1) \o <<"/", "entry">>,
                         <<Entry("categoryUuid", a2)>>)
          [] method = "getGridPositions" ->
                Path(<<"results", "/", "event", "/">> \o StringOf(a1)
                         \o <<"/", "category", "/">> \o StringOf(a2) \o <<"/", "grid">>)
          [] method = "getStandings" ->
                PathWith(<<"results", "/", "standings">>,
                         <<Entry("seasonUuid", a1), Entry("categoryUuid", a2)>>)
          [] method = "getStandingsFiles" ->
                PathWith(<<"results", "/", "standings", "/", "files">>,
                         <<Entry("seasonUuid", a1), Entry("categoryUuid", a2)>>)
          [] method = "getBMWAward" ->
                PathWith(<<"results", "/", "standings", "/", "bmwaward">>,
                         <<Entry("seasonUuid", a1)>>)
          [] method = "getCategories" ->
                PathWith(<<"categories">>, <<Entry("seasonYear", a1)>>)
          [] method = "getBroadcastEvents" ->
                PathWith(<<"events">>, <<Entry("seasonYear", a1)>>)
          [] method = "getBroadcastEvent" -> Path(<<"events", "/">> \o StringOf(a1))
          [] method = "getRiders" -> Path(<<"riders">>)
          [] method = "getRider" -> Path(<<"riders", "/">> \o StringOf(a1))
          [] method = "getRiderStatistics" ->
                Path(<<"riders", "/">> \o StringOf(a1) \o <<"/", "stats">>)
          [] method = "getRiderSeasonStatistics" ->
                Path(<<"riders", "/">> \o StringOf(a1) \o <<"/", "statistics">>)
          [] method = "getTeams" ->
                PathWith(<<"teams">>, <<Entry("categoryUuid", a1), Entry("seasonYear", a2)>>)

-----------------------------------------------------------------------------
(* makeRequest: the URL, the request, the outcome of a response *)

\* The forEach over Object.entries(searchParams): an entry whose value is
\* neither undefined nor null is set on the URL as String(value).
RECURSIVE ApplyParams(_, _)
ApplyParams(url, entries) ==
    IF entries = <<>> THEN url
    ELSE LET e == Head(entries)
         IN  ApplyParams(IF e.value # Undefined /\ e.value # Null
                         THEN SearchParamsSet(url, e.key, StringOf(e.value))
                         ELSE url,
                         Tail(entries))

\* The URL makeRequest holds when it reaches the try block; [ok |-> FALSE]
\* when new URL threw.
BuildURL(desc, baseURL) ==
    LET url == NewURL(desc.endpoint, baseURL)
    IN  IF url.ok /\ desc.hasParams THEN ApplyParams(url, desc.params) ELSE url

\* As RequestOf, without the bodyTimeout option: undici's default applies.
RequestOfNoBodyTimeout(cl, url) ==
    [href |-> Href(url),
     method |-> "GET",
     userAgent |-> cl.userAgent,
     accept |-> "application/json",
     headersTimeout |-> cl.timeout,
     bodyTimeout |-> 300000]

\* The arguments of the call of undici's request().
RequestOf(cl, url) ==
    [href |-> Href(url),
     method |-> "GET",
     userAgent |-> cl.userAgent,
     accept |-> "application/json",
     headersTimeout |-> cl.timeout,
     bodyTimeout |-> cl.timeout]

NoRequest ==
    [href |-> <<>>, method |-> "", userAgent |-> <<>>, accept |-> "",
     headersTimeout |-> 0, bodyTimeout |-> 0]

\* undici rejects a request whose timeouts are negative before sending it.
RequestAccepted(req) == req.headersTimeout >= 0 /\ req.bodyTimeout >= 0

\* Values that are thrown
TypeErrorInvalidURL == [kind |-> "error", name |-> "TypeError", message |-> "Invalid URL"]
InvalidArgumentError ==
    [kind |-> "error", name |-> "InvalidArgumentError", message |-> "invalid headersTimeout"]
HeadersTimeoutError ==
    [kind |-> "error", name |-> "HeadersTimeoutError", message |-> "Headers Timeout Error"]
BodyTimeoutError ==
    [kind |-> "error", name |-> "BodyTimeoutError", message |-> "Body Timeout Error"]
SyntaxError ==
    [kind |-> "error", name |-> "SyntaxError", message |-> "Unexpected token in JSON"]

\* What the transport can reject with: DNS failure, refused connection, a
\* connection closed by the peer, and rejections that carry no message.
TransportFailures ==
    { [kind |-> "error", name |-> "Error", message |-> "getaddrinfo ENOTFOUND"],
      [kind |-> "error", name |-> "Error", message |-> "connect ECONNREFUSED"],
      [kind |-> "error", name |-> "SocketError", message |-> "other side closed"],
      [kind |-> "object", code |-> "ABORTED"],
      Undefined }

\* As StatusError, with one message for every status.
StatusErrorFlat(statusCode) ==
    [kind |-> "object",
     message |-> "HTTP " \o ToString(statusCode) \o ": Request Failed",
     status |-> statusCode]

\* The APIError of a response whose status is not 200.
StatusError(statusCode) ==
    [kind |-> "object",
     message |-> "HTTP " \o ToString(statusCode) \o ": "
                     \o (IF statusCode = 404 THEN "Not Found" ELSE "Request Failed"),
     status |-> statusCode]

\* As StatusOk, with every 2xx status taken for a success.
StatusOk2xx(statusCode) == statusCode >= 200 /\ statusCode < 300

\* response.statusCode !== 200 is false
StatusOk(statusCode) == statusCode = 200

\* As Catch, with every error rewritten to a message and a status.
CatchWithStatus(error) ==
    [kind |-> "object",
     message |-> IF error.kind \in {"object", "error"} /\ "message" \in DOMAIN error
                 THEN error.message ELSE "Unknown error occurred",
     status |-> IF "status" \in DOMAIN error THEN error.status ELSE 0]

\* The catch block: an object with a message is rethrown as it is, anything
\* else is replaced by an APIError.
Catch(error) ==
    IF Truthy(error) /\ error.kind \in {"object", "error"} /\ "message" \in DOMAIN error
    THEN error
    ELSE [kind |-> "object",
          message |-> IF error.kind = "error" THEN error.message
                      ELSE "Unknown error occurred"]

\* response.body.json() on the bodies the service is taken to send.
Bodies == {"[]", "{\"id\":\"abc\"}", "{\"message\":\"maintenance\"}", "null", "<html>", ""}

\* As JsonParse, with a text that is no JSON decoded as a string.
JsonParseLenient(text) ==
    IF text \in {"[]", "null"} THEN [ok |-> TRUE, value |-> Null]
    ELSE [ok |-> TRUE, value |-> [kind |-> "string", text |-> text]]

JsonParse(text) ==
    CASE text = "[]" -> [ok |-> TRUE, value |-> [kind |-> "array", items |-> <<>>]]
      [] text = "{\"id\":\"abc\"}" -> [ok |-> TRUE, value |-> [kind |-> "object", id |-> "abc"]]
      [] text = "{\"message\":\"maintenance\"}" ->
            [ok |-> TRUE, value |-> [kind |-> "object", message |-> "maintenance"]]
      [] text = "null" -> [ok |-> TRUE, value |-> Null]
      [] OTHER -> [ok |-> FALSE]

Statuses == {200, 201, 204, 301, 404, 500}

\* Promises
Pending == [state |-> "pending"]
Fulfilled(v) == [state |-> "fulfilled", value |-> v]
Rejected(e) == [state |-> "rejected", reason |-> e]

\* As CatalogReturn, with a rejection wrapped in a new error.
CatalogReturnWrapped(promise) ==
    IF promise.state = "rejected"
    THEN [state |-> "rejected",
          reason |-> [kind |-> "error", name |-> "Error", message |-> "Request failed",
                      cause |-> promise.reason]]
    ELSE promise

\* A catalog method: return this.makeRequest(...)
CatalogReturn(promise) == promise

-----------------------------------------------------------------------------
(* Calls *)

\* Time is counted in ticks, the configured timeout lasting TicksPerTimeout
\* ticks: t ticks are t * timeout / TicksPerTimeout milliseconds.
TicksPerTimeout == 2

\* t ticks are at least ms milliseconds: a timer of ms milliseconds that was
\* started t ticks ago has expired.
Expired(t, ms) == t * client.timeout >= ms * TicksPerTimeout

\* t ticks are at most ms milliseconds.
Within(t, ms) == t * client.timeout <= ms * TicksPerTimeout

\* What the transport has delivered to a call: the status code (0 before the
\* headers), the body once it is complete, and the failure it ended with.
NoFailure == [kind |-> "none"]
NoResponse == [statusCode |-> 0, hasBody |-> FALSE, body |-> "", failure |-> NoFailure]

IdleCall ==
    [phase |-> "idle", method |-> "", args |-> <<>>,
     url |-> [ok |-> FALSE], log |-> <<>>, request |-> NoRequest, sent |-> 0,
     wait |-> 0, elapsed |-> 0, response |-> NoResponse,
     result |-> Pending, outcome |-> Pending]

\* makeRequest's promise settles and with it the catalog method's.
Settle(call, promise) ==
    [call EXCEPT !.phase = "done", !.wait = 0, !.elapsed = 0,
                 !.result = promise, !.outcome = CatalogReturn(promise)]

\* As Invoke, with the diagnostic line written before the URL is built.
InvokeLogsFirst(c, method, args) ==
    /\ calls[c].phase = "idle"
    /\ LET desc == Catalog(method, args)
           url == BuildURL(desc, client.baseURL)
           call == [IdleCall EXCEPT !.method = method, !.args = args, !.url = url,
                                    !.log = <<desc.endpoint>>]
           req == RequestOf(client, url)
       IN  calls' = [calls EXCEPT ![c] =
               IF ~url.ok THEN Settle(call, Rejected(TypeErrorInvalidURL))
               ELSE IF ~RequestAccepted(req)
               THEN Settle(call, Rejected(Catch(InvalidArgumentError)))
               ELSE [call EXCEPT !.phase = "headers", !.request = req, !.sent = 1]]
    /\ UNCHANGED <<options, client, helper, clock>>

\* A catalog method is called: makeRequest runs up to its first await.
\* new URL is outside the try block, console.log and request() inside it.
Invoke(c, method, args) ==
    /\ calls[c].phase = "idle"
    /\ LET desc == Catalog(method, args)
           url == BuildURL(desc, client.baseURL)
           call == [IdleCall EXCEPT !.method = method, !.args = args, !.url = url]
           req == RequestOf(client, url)
       IN  calls' = [calls EXCEPT ![c] =
               IF ~url.ok THEN Settle(call, Rejected(TypeErrorInvalidURL))
               ELSE IF ~RequestAccepted(req)
               THEN Settle([call EXCEPT !.log = <<Href(url)>>],
                           Rejected(Catch(InvalidArgumentError)))
               ELSE [call EXCEPT !.phase = "headers", !.log = <<Href(url)>>,
                                 !.request = req, !.sent = 1]]
    /\ UNCHANGED <<options, client, helper, clock>>

\* The response's status line and headers arrive.
HeadersArrive(c, statusCode) ==
    /\ calls[c].phase = "headers"
    /\ LET call == [calls[c] EXCEPT !.response.statusCode = statusCode]
       IN  calls' = [calls EXCEPT ![c] =
               IF StatusOk(statusCode)
               THEN [call EXCEPT !.phase = "body", !.wait = 0]
               ELSE Settle(call, Rejected(Catch(StatusError(statusCode))))]
    /\ UNCHANGED <<options, client, helper, clock>>

\* As HeadersTimeout, with the timeout reported as a response of status 408.
HeadersTimeoutAsStatus(c) ==
    /\ calls[c].phase = "headers"
    /\ Expired(calls[c].wait, calls[c].request.headersTimeout)
    /\ calls' = [calls EXCEPT ![c] =
           Settle([@ EXCEPT !.response.failure = HeadersTimeoutError],
                  Rejected(Catch(StatusError(408))))]
    /\ UNCHANGED <<options, client, helper, clock>>

\* As HeadersTimeout, with the client's timeout put back to the default.
HeadersTimeoutResets(c) ==
    /\ calls[c].phase = "headers"
    /\ Expired(calls[c].wait, calls[c].request.headersTimeout)
    /\ calls' = [calls EXCEPT ![c] =
           Settle([@ EXCEPT !.response.failure = HeadersTimeoutError],
                  Rejected(Catch(HeadersTimeoutError)))]
    /\ client' = [client EXCEPT !.timeout = DefaultTimeout]
    /\ UNCHANGED <<options, helper, clock>>

\* headersTimeout expires.
HeadersTimeout(c) ==
    /\ calls[c].phase = "headers"
    /\ Expired(calls[c].wait, calls[c].request.headersTimeout)
    /\ calls' = [calls EXCEPT ![c] =
           Settle([@ EXCEPT !.response.failure = HeadersTimeoutError],
                  Rejected(Catch(HeadersTimeoutError)))]
    /\ UNCHANGED <<options, client, helper, clock>>

\* As TransportFailure, with a failure before the headers answered by a
\* second attempt.
TransportFailureRetry(c, error) ==
    /\ calls[c].phase \in {"headers", "body"}
    /\ calls' = [calls EXCEPT ![c] =
           IF @.phase = "headers" /\ @.sent < 2
           THEN [@ EXCEPT !.sent = @ + 1, !.wait = 0]
           ELSE Settle([@ EXCEPT !.response.failure = error], Rejected(Catch(error)))]
    /\ UNCHANGED <<options, client, helper, clock>>

\* The transport fails, before the headers or while the body is read.
TransportFailure(c, error) ==
    /\ calls[c].phase \in {"headers", "body"}
    /\ calls' = [calls EXCEPT ![c] =
           Settle([@ EXCEPT !.response.failure = error], Rejected(Catch(error)))]
    /\ UNCHANGED <<options, client, helper, clock>>

\* As BodyArrives, with the decoded body kept in one place for the client:
\* every call that waits for a body takes it.
BodyArrivesShared(c, text) ==
    /\ calls[c].phase = "body"
    /\ LET parsed == JsonParse(text)
           promise == IF parsed.ok THEN Fulfilled(parsed.value)
                      ELSE Rejected(Catch(SyntaxError))
       IN  calls' = [d \in DOMAIN calls |->
               IF d = c
               THEN Settle([calls[d] EXCEPT !.response.hasBody = TRUE,
                                            !.response.body = text], promise)
               ELSE IF calls[d].phase = "body" THEN Settle(calls[d], promise)
               ELSE calls[d]]
    /\ UNCHANGED <<options, client, helper, clock>>

\* The whole body has arrived: response.body.json() parses it.
BodyArrives(c, text) ==
    /\ calls[c].phase = "body"
    /\ LET call == [calls[c] EXCEPT !.response.hasBody = TRUE, !.response.body = text]
           parsed == JsonParse(text)
       IN  calls' = [calls EXCEPT ![c] =
               IF parsed.ok THEN Settle(call, Fulfilled(parsed.value))
               ELSE Settle(call, Rejected(Catch(SyntaxError)))]
    /\ UNCHANGED <<options, client, helper, clock>>

\* As BodyTimeout, with no timer for the body.
BodyTimeoutNever(c) ==
    /\ calls[c].phase = "body"
    /\ FALSE
    /\ UNCHANGED vars

\* bodyTimeout expires.
BodyTimeout(c) ==
    /\ calls[c].phase = "body"
    /\ Expired(calls[c].wait, calls[c].request.bodyTimeout)
    /\ calls' = [calls EXCEPT ![c] =
           Settle([@ EXCEPT !.response.failure = BodyTimeoutError],
                  Rejected(Catch(BodyTimeoutError)))]
    /\ UNCHANGED <<options, client, helper, clock>>

Waiting == {c \in DOMAIN calls : calls[c].phase \in {"headers", "body"}}

\* The limit of the wait a call is in.
Limit(c) ==
    IF calls[c].phase = "headers" THEN calls[c].request.headersTimeout
    ELSE calls[c].request.bodyTimeout

\* The caller has the outcome; the slot is free for the next call.
Return(c) ==
    /\ calls[c].phase = "done"
    /\ calls' = [calls EXCEPT ![c] = IdleCall]
    /\ UNCHANGED <<options, client, helper, clock>>

\* Time passes for every waiting call; a timer that has expired fires before
\* time goes on.
Tick ==
    /\ Waiting # {}
    /\ \A c \in Waiting : ~Expired(calls[c].wait, Limit(c))
    /\ calls' = [c \in DOMAIN calls |->
           IF c \in Waiting
           THEN [calls[c] EXCEPT !.wait = @ + 1, !.elapsed = @ + 1]
           ELSE calls[c]]
    /\ UNCHANGED <<options, client, helper, clock>>

-----------------------------------------------------------------------------
(* Inputs *)

abc == Str(<<"abc">>)
cat == Str(<<"737ab122">>)
withQuery == Str(<<"abc", "?", "k", "=", "v">>)
withCategory == Str(<<"abc", "?", "categoryUuid", "=", "zzz", "&", "x", "=">>)
withDots == Str(<<"..", "/", "..", "/", "riders">>)
withFragment == Str(<<"abc", "#">>)

Call(method, args) == [method |-> method, args |-> args]

Inputs ==
    { Call("getLiveTiming", <<>>),
      Call("getSeasons", <<>>),
      Call("getEvents", <<abc>>),
      Call("getEvents", <<Str(<<>>)>>),
      Call("getEvents", <<Undefined>>),
      Call("getEvent", <<abc>>),
      Call("getEvent", <<withQuery>>),
      Call("getEvent", <<withDots>>),
      Call("getSessions", <<abc, cat>>),
      Call("getSessions", <<abc, Null>>),
      Call("getSession", <<abc>>),
      Call("getClassification", <<abc>>),
      Call("getClassification", <<abc, Num(2024)>>),
      Call("getClassification", <<abc, Num(0), Bool(FALSE)>>),
      Call("getClassification", <<abc, Undefined, Bool(TRUE)>>),
      Call("getClassification", <<abc, Null, Null>>),
      Call("getClassification", <<withQuery, Num(2024)>>),
      Call("getClassification", <<withFragment, Num(2024)>>),
      Call("getEntryList", <<abc, cat>>),
      Call("getEntryList", <<abc, Undefined>>),
      Call("getEntryList", <<withCategory, Undefined>>),
      Call("getEntryList", <<withCategory, cat>>),
      Call("getGridPositions", <<abc, cat>>),
      Call("getGridPositions", <<withDots, cat>>),
      Call("getStandings", <<abc, cat>>),
      Call("getStandingsFiles", <<abc, cat>>),
      Call("getBMWAward", <<abc>>),
      Call("getCategories", <<Num(2024)>>),
      Call("getCategories", <<Num(0)>>),
      Call("getBroadcastEvents", <<Num(2024)>>),
      Call("getBroadcastEvent", <<abc>>),
      Call("getRiders", <<>>),
      Call("getRider", <<abc>>),
      Call("getRiderStatistics", <<Num(8520)>>),
      Call("getRiderSeasonStatistics", <<Num(8520)>>),
      Call("getTeams", <<cat, Num(2024)>>),
      Call("getTeams", <<Str(<<"a", "&", "b">>), Num(0)>>) }

\* The calls made concurrently.
ConcInputs ==
    { Call("getEvents", <<abc>>),
      Call("getEvent", <<withQuery>>),
      Call("getTeams", <<cat, Num(2024)>>) }

-----------------------------------------------------------------------------
(* The helper functions of types/results.ts.  Their strings are sequences  *)
(* of characters, each character a string of length one.                   *)

DigitChars == <<"0", "1", "2", "3", "4", "5", "6", "7", "8", "9">>
LowerLetters ==
    <<"a", "b", "c", "d", "e", "f", "g", "h", "i", "j", "k", "l", "m",
      "n", "o", "p", "q", "r", "s", "t", "u", "v", "w", "x", "y", "z">>
UpperLetters ==
    <<"A", "B", "C", "D", "E", "F", "G", "H", "I", "J", "K", "L", "M",
      "N", "O", "P", "Q", "R", "S", "T", "U", "V", "W", "X", "Y", "Z">>

IsDigit(ch) == \E i \in 1..10 : DigitChars[i] = ch
IsUpper(ch) == \E i \in 1..26 : UpperLetters[i] = ch
IsLower(ch) == \E i \in 1..26 : LowerLetters[i] = ch
DigitValue(ch) == (CHOOSE i \in 1..10 : DigitChars[i] = ch) - 1

\* String.prototype.toUpperCase and toLowerCase, on the letters a-z and A-Z.
toUpperCase(s) ==
    [i \in 1..Len(s) |->
        IF IsLower(s[i])
        THEN UpperLetters[CHOOSE k \in 1..26 : LowerLetters[k] = s[i]]
        ELSE s[i]]

toLowerCase(s) ==
    [i \in 1..Len(s) |->
        IF IsUpper(s[i])
        THEN LowerLetters[CHOOSE k \in 1..26 : UpperLetters[k] = s[i]]
        ELSE s[i]]

\* s.replace(/[c]/g, to): every occurrence of the character is replaced.
RECURSIVE ReplaceAll(_, _, _)
ReplaceAll(s, c, to) ==
    IF s = <<>> THEN <<>>
    ELSE <<IF Head(s) = c THEN to ELSE Head(s)>> \o ReplaceAll(Tail(s), c, to)

\* As ReplaceAll, for a pattern without the g flag: the first occurrence only.
ReplaceFirst(s, c, to) ==
    IF IndexOf(s, c) = 0 THEN s ELSE [s EXCEPT ![IndexOf(s, c)] = to]

\* s.includes(sub)
Includes(s, sub) ==
    \E i \in 0..(Len(s) - Len(sub)) : SubSeq(s, i + 1, i + Len(sub)) = sub

\* s.padStart(n, ch) and s.padEnd(n, ch): a string of n or more characters
\* is returned as it is.
PadStart(s, n, ch) == IF Len(s) >= n THEN s ELSE [i \in 1..(n - Len(s)) |-> ch] \o s
PadEnd(s, n, ch) == IF Len(s) >= n THEN s ELSE s \o [i \in 1..(n - Len(s)) |-> ch]

\* Number.prototype.toString of an integer.
RECURSIVE NatToString(_)
NatToString(n) ==
    IF n < 10 THEN <<DigitChars[n + 1]>>
    ELSE NatToString(n \div 10) \o <<DigitChars[(n % 10) + 1]>>

NumberToString(n) == IF n < 0 THEN <<"-">> \o NatToString(-n) ELSE NatToString(n)

\* The % of JavaScript: the remainder takes the sign of the dividend.
Remainder(a, b) == IF a >= 0 THEN a % b ELSE -((-a) % b)

\* Math.floor(a / b) for b > 0.
FloorDiv(a, b) == a \div b

NaN == [kind |-> "number", nan |-> TRUE]
isNaN(v) == v = NaN

Whitespace == {" "}

RECURSIVE TrimStart(_)
TrimStart(s) ==
    IF s # <<>> /\ Head(s) \in Whitespace THEN TrimStart(Tail(s)) ELSE s

RECURSIVE LeadingDigits(_)
LeadingDigits(s) ==
    IF s # <<>> /\ IsDigit(Head(s)) THEN <<Head(s)>> \o LeadingDigits(Tail(s))
    ELSE <<>>

RECURSIVE DigitsValue(_)
DigitsValue(ds) ==
    IF ds = <<>> THEN 0
    ELSE DigitsValue(SubSeq(ds, 1, Len(ds) - 1)) * 10 + DigitValue(ds[Len(ds)])

\* parseInt(s, 10): leading white space is skipped, a sign is read, then the
\* longest run of digits; what follows the digits is ignored, and a string
\* with no digit there gives NaN.
parseInt(s) ==
    LET t == TrimStart(s)
        signed == t # <<>> /\ Head(t) \in {"+", "-"}
        negative == t # <<>> /\ Head(t) = "-"
        ds == LeadingDigits(IF signed THEN Tail(t) ELSE t)
    IN  IF ds = <<>> THEN NaN
        ELSE Num(IF negative THEN -DigitsValue(ds) ELSE DigitsValue(ds))

CATEGORY_IDS ==
    [MOTOGP |-> "737ab122-76e1-4081-bedb-334caaa18c70",
     MOTO2 |-> "ea854a67-73a4-4a28-ac77-d67b3b2a530a",
     MOTO3 |-> "1ab203aa-e292-4842-8bed-971911357af1",
     MOTOE |-> "cf196668-f900-4116-af79-810b91828a37"]

\* As NormalizedName, without the toUpperCase.
NormalizedNameCaseSensitive(categoryName) ==
    SelectSeq(categoryName, LAMBDA ch : IsUpper(ch) \/ IsDigit(ch))

\* name.toUpperCase().replace(/[^A-Z0-9]/g, '')
NormalizedName(categoryName) ==
    SelectSeq(toUpperCase(categoryName), LAMBDA ch : IsUpper(ch) \/ IsDigit(ch))

getCategoryId(categoryName) ==
    LET normalizedName == NormalizedName(categoryName)
    IN  CASE normalizedName = <<"M", "O", "T", "O", "G", "P">> -> Str(CATEGORY_IDS.MOTOGP)
          [] normalizedName = <<"M", "O", "T", "O", "2">> -> Str(CATEGORY_IDS.MOTO2)
          [] normalizedName = <<"M", "O", "T", "O", "3">> -> Str(CATEGORY_IDS.MOTO3)
          [] normalizedName = <<"M", "O", "T", "O", "E">> -> Str(CATEGORY_IDS.MOTOE)
          [] OTHER -> Undefined

\* As CategoryMatches, looking at the name only.
CategoryMatchesName(category, normalizedName) ==
    Includes(toLowerCase(category.name), normalizedName)

\* cat.name.toLowerCase().includes(n) || cat.acronym?.toLowerCase().includes(n)
CategoryMatches(category, normalizedName) ==
    \/ Includes(toLowerCase(category.name), normalizedName)
    \/ /\ category.acronym.kind = "string"
       /\ Includes(toLowerCase(category.acronym.str), normalizedName)

\* A call that ends by an exception.
Thrown(error) == [kind |-> "thrown", error |-> error]
IsThrown(v) == "kind" \in DOMAIN v /\ v.kind = "thrown"
TypeErrorNoProperty ==
    [kind |-> "error", name |-> "TypeError",
     message |-> "Cannot read properties of undefined (reading 'toLowerCase')"]

\* As PredicateThrows, for cat.acronym.toLowerCase() without the ?. operator.
PredicateThrowsOnMissingAcronym(category, normalizedName) ==
    /\ ~Includes(toLowerCase(category.name), normalizedName)
    /\ category.acronym.kind # "string"

\* The predicate throws when it reaches the acronym and the acronym is
\* neither undefined or null, which ?. lets through, nor a string.
PredicateThrows(category, normalizedName) ==
    /\ ~Includes(toLowerCase(category.name), normalizedName)
    /\ category.acronym.kind \notin {"undefined", "null", "string"}

\* As Find, returning the last element that satisfies the predicate.
RECURSIVE FindLast(_, _)
FindLast(categories, normalizedName) ==
    IF categories = <<>> THEN Undefined
    ELSE LET last == categories[Len(categories)]
         IN  IF CategoryMatches(last, normalizedName) THEN last
             ELSE FindLast(SubSeq(categories, 1, Len(categories) - 1), normalizedName)

\* categories.find(predicate): the first element that satisfies it; an
\* exception of the predicate ends the search.
RECURSIVE Find(_, _)
Find(categories, normalizedName) ==
    IF categories = <<>> THEN Undefined
    ELSE IF PredicateThrows(Head(categories), normalizedName)
    THEN Thrown(TypeErrorNoProperty)
    ELSE IF CategoryMatches(Head(categories), normalizedName) THEN Head(categories)
    ELSE Find(Tail(categories), normalizedName)

findCategoryByName(categories, name) == Find(categories, toLowerCase(name))

\* The year the clock starts in, and new Date().getFullYear() at clock t.
FirstYear == 2024
getFullYear(t) == FirstYear + (t \div 12)

getCurrentYear(t) == getFullYear(t)

\* As isValidSeasonYear, with the years after the current one refused.
isValidSeasonYearUpToCurrent(year, t) ==
    LET currentYear == getCurrentYear(t)
    IN  year >= 2000 /\ year <= currentYear

\* As isValidSeasonYear, with a lower limit that follows the current year.
isValidSeasonYearRecent(year, t) ==
    LET currentYear == getCurrentYear(t)
    IN  year >= currentYear - 1 /\ year <= currentYear + 1

\* isValidSeasonYear(year), called when the clock is t.
isValidSeasonYear(year, t) ==
    LET currentYear == getCurrentYear(t)
    IN  year >= 2000 /\ year <= currentYear + 1

\* As formatLapTime, with a pattern that has no g flag.
formatLapTimeFirst(timeString) == ReplaceFirst(timeString, "'", ":")

formatLapTime(timeString) == ReplaceAll(timeString, "'", ":")

\* As msToTimeString, with the milliseconds not padded.
msToTimeStringUnpadded(ms) ==
    LET minutes == FloorDiv(ms, 60000)
        seconds == FloorDiv(Remainder(ms, 60000), 1000)
        milliseconds == Remainder(ms, 1000)
    IN  NumberToString(minutes) \o <<":">>
            \o PadStart(NumberToString(seconds), 2, "0") \o <<".">>
            \o NumberToString(milliseconds)

\* As msToTimeString, with the seconds not padded.
msToTimeStringSecondsUnpadded(ms) ==
    LET minutes == FloorDiv(ms, 60000)
        seconds == FloorDiv(Remainder(ms, 60000), 1000)
        milliseconds == Remainder(ms, 1000)
    IN  NumberToString(minutes) \o <<":">>
            \o NumberToString(seconds) \o <<".">>
            \o PadStart(NumberToString(milliseconds), 3, "0")

\* As msToTimeString, with the seconds counted from zero and not from the
\* last whole minute.
msToTimeStringTotalSeconds(ms) ==
    LET minutes == FloorDiv(ms, 60000)
        seconds == FloorDiv(ms, 1000)
        milliseconds == Remainder(ms, 1000)
    IN  NumberToString(minutes) \o <<":">>
            \o PadStart(NumberToString(seconds), 2, "0") \o <<".">>
            \o PadStart(NumberToString(milliseconds), 3, "0")

msToTimeString(ms) ==
    LET minutes == FloorDiv(ms, 60000)
        seconds == FloorDiv(Remainder(ms, 60000), 1000)
        milliseconds == Remainder(ms, 1000)
    IN  NumberToString(minutes) \o <<":">>
            \o PadStart(NumberToString(seconds), 2, "0") \o <<".">>
            \o PadStart(NumberToString(milliseconds), 3, "0")

\* As parseTimeToMs, with the fraction read without padEnd.
parseTimeToMsNoPadEnd(timeString) ==
    LET cleanTime == ReplaceAll(timeString, "'", ":")
        parts == Split(cleanTime, ":")
    IN  IF Len(parts) # 2 THEN 0
        ELSE LET minutes == parseInt(parts[1])
                 secondsParts == Split(parts[2], ".")
                 seconds == parseInt(secondsParts[1])
                 milliseconds ==
                     IF Len(secondsParts) >= 2 /\ secondsParts[2] # <<>>
                     THEN parseInt(secondsParts[2])
                     ELSE Num(0)
             IN  IF isNaN(minutes) \/ isNaN(seconds) \/ isNaN(milliseconds)
                 THEN 0
                 ELSE (minutes.num * 60 * 1000) + (seconds.num * 1000) + milliseconds.num

parseTimeToMs(timeString) ==
    LET cleanTime == ReplaceAll(timeString, "'", ":")
        parts == Split(cleanTime, ":")
    IN  IF Len(parts) # 2 THEN 0
        ELSE LET minutes == parseInt(parts[1])
                 secondsParts == Split(parts[2], ".")
                 seconds == parseInt(secondsParts[1])
                 milliseconds ==
                     IF Len(secondsParts) >= 2 /\ secondsParts[2] # <<>>
                     THEN parseInt(PadEnd(secondsParts[2], 3, "0"))
                     ELSE Num(0)
             IN  IF isNaN(minutes) \/ isNaN(seconds) \/ isNaN(milliseconds)
                 THEN 0
                 ELSE (minutes.num * 60 * 1000) + (seconds.num * 1000) + milliseconds.num

-----------------------------------------------------------------------------
(* The arguments the helper functions are called with *)

MaxLen == 4
MaxMinutes == 2
MaxCategories == 3

\* Every string of at most n characters of the set.
RECURSIVE StringsOver(_, _)
StringsOver(chars, n) ==
    IF n = 0 THEN {<<>>}
    ELSE LET shorter == StringsOver(chars, n - 1)
         IN  shorter \cup
                 {Append(s, ch) : s \in {t \in shorter : Len(t) = n - 1}, ch \in chars}

TimeChars == {"1", ":", "'", ".", "x", "-"}

Minutes == (0..MaxMinutes) \cup {10, 123}
Millis == {0, 1, 9, 10, 45, 99, 100, 456, 999}

\* msToTimeString's arguments: minutes*60000 + seconds*1000 + milliseconds.
MsInputs == {m * 60000 + s * 1000 + r : m \in Minutes, s \in 0..59, r \in Millis}

MinuteParts ==
    {NumberToString(m) : m \in Minutes}
        \cup {<<"0", "1">>, <<>>, <<"x">>, <<"1", "x">>, <<"-", "1">>, <<" ", "1">>}

SecondParts ==
    {PadStart(NumberToString(s), 2, "0") : s \in {0, 5, 23, 59}}
        \cup {<<"5">>, <<"6", "0">>, <<>>, <<"x">>, <<"2", "3", "x">>}

Fractions ==
    { <<>>, <<".">>, <<".", "5">>, <<".", "4", "5">>, <<".", "4", "5", "6">>,
      <<".", "0", "0", "0">>, <<".", "0", "4", "5">>, <<".", "4", "5", "6", "7">>,
      <<".", "x">>, <<".", "5", "x">>, <<".", "4", ".", "5">> }

\* parseTimeToMs's and formatLapTime's arguments: the short strings, the
\* strings put together from a minutes part, a separator, a seconds part and
\* a fraction, and the strings of the tests.
TimeStrings ==
    StringsOver(TimeChars, MaxLen)
        \cup {m \o <<sep>> \o s \o f :
                 m \in MinuteParts, sep \in {":", "'"}, s \in SecondParts, f \in Fractions}
        \cup { <<"i", "n", "v", "a", "l", "i", "d">>,
               <<"1", ":", "2", ":", "3">>,
               <<"1", "'", "2", "3", "'", "4", "5", "6">> }

Separators == {" ", "-", "_", "."}

CategoryWords ==
    { <<"M", "O", "T", "O", "G", "P">>, <<"M", "O", "T", "O", "2">>,
      <<"M", "O", "T", "O", "3">>, <<"M", "O", "T", "O", "E">>,
      <<"M", "O", "T", "O">>, <<"M", "O", "T", "O", "1">>,
      <<"M", "O", "T", "O", "G", "P", "2">>, <<"F", "1">>,
      <<"I", "N", "V", "A", "L", "I", "D">>, <<>> }

\* A word in upper case, in lower case, capitalised, and in alternating case.
CaseForms(w) ==
    { toUpperCase(w), toLowerCase(w),
      [i \in 1..Len(w) |-> IF i = 1 THEN w[i] ELSE toLowerCase(<<w[i]>>)[1]],
      [i \in 1..Len(w) |-> IF i % 2 = 0 THEN w[i] ELSE toLowerCase(<<w[i]>>)[1]] }

\* A string as it is and with one separator put in at any place.
WithSeparator(w) ==
    {w} \cup {SubSeq(w, 1, i) \o <<sep>> \o SubSeq(w, i + 1, Len(w)) :
                 i \in 0..Len(w), sep \in Separators}

\* getCategoryId's arguments.
CategoryNames ==
    UNION {WithSeparator(f) : f \in UNION {CaseForms(w) : w \in CategoryWords}}

Category(id, name, acronym) ==
    [id |-> id, name |-> name, acronym |-> acronym, legacy_id |-> id]

\* The categories of the tests, one without acronym, one whose acronym is
\* found in the name of another, and one whose name is found in the names of
\* others and whose acronym is null.
CategoryPool ==
    { Category(1, <<"M", "o", "t", "o", "G", "P">>, Str(<<"M", "O", "T">>)),
      Category(2, <<"M", "o", "t", "o", "2">>, Str(<<"M", "O", "2">>)),
      Category(3, <<"M", "o", "t", "o", "3">>, Str(<<"M", "O", "3">>)),
      Category(4, <<"M", "o", "t", "o", "E">>, Undefined),
      Category(5, <<"E", "2">>, Str(<<"M", "G", "P">>)),
      Category(6, <<"M", "o", "t", "o">>, Null) }

\* Every list of at most n categories of the pool.
RECURSIVE CategoryLists(_)
CategoryLists(n) ==
    IF n = 0 THEN {<<>>}
    ELSE LET shorter == CategoryLists(n - 1)
         IN  shorter \cup
                 {Append(l, c) : l \in {t \in shorter : Len(t) = n - 1},
                                 c \in CategoryPool}

SearchNames ==
    { <<"M", "o", "t", "o", "G", "P">>, <<"m", "o", "t", "o", "g", "p">>,
      <<"M", "O", "T">>, <<"M", "o", "t", "o", "2">>, <<"M", "O", "T", "O", "3">>,
      <<"N", "o", "t", "F", "o", "u", "n", "d">>, <<>>, <<"o", "2">>,
      <<"m", "g", "p">>, <<"E">>, <<"g", "P">>, <<"m", "o", "3">>,
      <<"m", "o", "t", "o", "E">>, <<"e", "2">>, <<"M", "O", "T", "O">> }

\* A JavaScript array.
Array(items) == [kind |-> "array", items |-> items]

\* A call of a helper: at is the clock at the moment of the call.
HelperCall(fn, args) ==
    [fn |-> fn, args |-> args, result |-> Undefined, done |-> FALSE, at |-> 0]
NoHelperCall == HelperCall("none", <<>>)

HelperCalls ==
    {HelperCall("getCategoryId", <<Str(n)>>) : n \in CategoryNames}
        \cup {HelperCall("findCategoryByName", <<Array(l), Str(n)>>) :
                 l \in CategoryLists(MaxCategories), n \in SearchNames}
        \cup {HelperCall("formatLapTime", <<Str(s)>>) : s \in TimeStrings}
        \cup {HelperCall("msToTimeString", <<Num(ms)>>) : ms \in MsInputs}
        \cup {HelperCall("parseTimeToMs", <<Str(s)>>) : s \in TimeStrings}

\* The helper returns: the call holds its result, the arguments as they are
\* after the call.
Returned(result) == [helper EXCEPT !.result = result, !.done = TRUE, !.at = clock]

CallGetCategoryId ==
    /\ helper.fn = "getCategoryId" /\ ~helper.done
    /\ helper' = Returned(getCategoryId(helper.args[1].str))
    /\ UNCHANGED <<options, client, calls, clock>>

CallFindCategoryByName ==
    /\ helper.fn = "findCategoryByName" /\ ~helper.done
    /\ helper' = Returned(findCategoryByName(helper.args[1].items, helper.args[2].str))
    /\ UNCHANGED <<options, client, calls, clock>>

CallFormatLapTime ==
    /\ helper.fn = "formatLapTime" /\ ~helper.done
    /\ helper' = Returned(Str(formatLapTime(helper.args[1].str)))
    /\ UNCHANGED <<options, client, calls, clock>>

CallMsToTimeString ==
    /\ helper.fn = "msToTimeString" /\ ~helper.done
    /\ helper' = Returned(Str(msToTimeString(helper.args[1].num)))
    /\ UNCHANGED <<options, client, calls, clock>>

CallParseTimeToMs ==
    /\ helper.fn = "parseTimeToMs" /\ ~helper.done
    /\ helper' = Returned(Num(parseTimeToMs(helper.args[1].str)))
    /\ UNCHANGED <<options, client, calls, clock>>

-----------------------------------------------------------------------------
(* Specifications *)

\* One client, one call at a time.
Init ==
    /\ options \in OptionsSet
    /\ client = MotoGPClient(options)
    /\ calls = [c \in {"a"} |-> IdleCall]
    /\ helper = NoHelperCall
    /\ clock = 0

\* One client, two calls in progress at once.
ConcInit ==
    /\ options \in OptionsSet
    /\ client = MotoGPClient(options)
    /\ calls = [c \in {"a", "b"} |-> IdleCall]
    /\ helper = NoHelperCall
    /\ clock = 0

Respond ==
    \/ \E c \in DOMAIN calls, statusCode \in Statuses : HeadersArrive(c, statusCode)
    \/ \E c \in DOMAIN calls : HeadersTimeout(c)
    \/ \E c \in DOMAIN calls, error \in TransportFailures : TransportFailure(c, error)
    \/ \E c \in DOMAIN calls, text \in Bodies : BodyArrives(c, text)
    \/ \E c \in DOMAIN calls : BodyTimeout(c)
    \/ \E c \in DOMAIN calls : Return(c)
    \/ Tick

Next ==
    \/ \E c \in DOMAIN calls, in \in Inputs : Invoke(c, in.method, in.args)
    \/ Respond

ConcNext ==
    \/ \E c \in DOMAIN calls, in \in ConcInputs : Invoke(c, in.method, in.args)
    \/ Respond

Spec == Init /\ [][Next]_vars

ConcSpec == ConcInit /\ [][ConcNext]_vars

\* The calls of the helpers that read the clock.
MaxYears == 3
Years == {-1, 1999, 2000, 2001} \cup ((FirstYear - 1)..(FirstYear + MaxYears + 2))

ClockCalls ==
    {HelperCall("isValidSeasonYear", <<Num(year)>>) : year \in Years}
        \cup {HelperCall("getCurrentYear", <<>>)}

CallGetCurrentYear ==
    /\ helper.fn = "getCurrentYear"
    /\ helper' = Returned(Num(getCurrentYear(clock)))
    /\ UNCHANGED <<options, client, calls, clock>>

CallIsValidSeasonYear ==
    /\ helper.fn = "isValidSeasonYear"
    /\ helper' = Returned(Bool(isValidSeasonYear(helper.args[1].num, clock)))
    /\ UNCHANGED <<options, client, calls, clock>>

\* A month passes.
ClockAdvance ==
    /\ clock < 12 * MaxYears - 1
    /\ clock' = clock + 1
    /\ UNCHANGED <<options, client, calls, helper>>

\* One helper that reads the clock, called again and again with the same
\* argument while the clock advances.
ClockInit ==
    /\ options = NoOptions
    /\ client = MotoGPClient(options)
    /\ calls = [c \in {"a"} |-> IdleCall]
    /\ helper \in ClockCalls
    /\ clock = 0

ClockNext ==
    \/ CallGetCurrentYear
    \/ CallIsValidSeasonYear
    \/ ClockAdvance

ClockSpec == ClockInit /\ [][ClockNext]_vars

\* One call of one helper function.
HelperInit ==
    /\ options = NoOptions
    /\ client = MotoGPClient(options)
    /\ calls = [c \in {"a"} |-> IdleCall]
    /\ helper \in HelperCalls
    /\ clock = 0

HelperNext ==
    \/ CallGetCategoryId
    \/ CallFindCategoryByName
    \/ CallFormatLapTime
    \/ CallMsToTimeString
    \/ CallParseTimeToMs

HelperSpec == HelperInit /\ [][HelperNext]_vars

\* The event loop runs a timer that has expired, and time does not stop.
FairSpec ==
    /\ ConcSpec
    /\ WF_vars(Tick)
    /\ \A c \in {"a", "b"} : WF_vars(HeadersTimeout(c)) /\ WF_vars(BodyTimeout(c))

-----------------------------------------------------------------------------
(* Properties of the request pipeline *)

Done(c) == calls[c].phase = "done"
JsonTexts == {"[]", "{\"id\":\"abc\"}", "{\"message\":\"maintenance\"}", "null"}

\* C1: a call whose response has a status other than 200 fails with an error
\* that carries the status and the message "HTTP 404: Not Found" for 404 and
\* "HTTP <status>: Request Failed" for any other status, 2xx and 3xx
\* included; the caller receives that error with message and status intact.
C1_StatusErrorReachesCaller ==
    \A c \in DOMAIN calls :
        LET statusCode == calls[c].response.statusCode
        IN  (Done(c) /\ statusCode \notin {0, 200}) =>
                /\ calls[c].outcome.state = "rejected"
                /\ calls[c].outcome.reason =
                       [kind |-> "object",
                        message |-> IF statusCode = 404 THEN "HTTP 404: Not Found"
                                    ELSE "HTTP " \o ToString(statusCode) \o ": Request Failed",
                        status |-> statusCode]
                /\ (statusCode = 201 => calls[c].outcome.reason.message = "HTTP 201: Request Failed")
                /\ (statusCode = 301 => calls[c].outcome.reason.message = "HTTP 301: Request Failed")
                /\ (statusCode = 500 => calls[c].outcome.reason.message = "HTTP 500: Request Failed")

C1_Witness ==
    \E c \in DOMAIN calls :
        /\ Done(c)
        /\ calls[c].response.statusCode = 404
        /\ calls[c].outcome.state = "rejected"
        /\ calls[c].outcome.reason.status = 404

\* The call ended by a failure of the transport: a failure before or after
\* the headers, a timeout, or a body that is no JSON text.
TransportLevel(c) ==
    \/ calls[c].response.failure # NoFailure
    \/ calls[c].response.hasBody /\ calls[c].response.body \notin JsonTexts

Underlying(c) ==
    IF calls[c].response.failure # NoFailure THEN calls[c].response.failure ELSE SyntaxError

\* C2: a call that fails at transport level (DNS, refused connection,
\* header or body timeout, malformed JSON) surfaces an error without a status
\* code, whose message is the message of the underlying failure, or
\* "Unknown error occurred" when the thrown value carries no message.
C2_TransportErrorNormalized ==
    \A c \in DOMAIN calls :
        (Done(c) /\ TransportLevel(c)) =>
            /\ calls[c].outcome.state = "rejected"
            /\ "status" \notin DOMAIN calls[c].outcome.reason
            /\ calls[c].outcome.reason.message =
                   IF Underlying(c).kind \in {"object", "error"}
                          /\ "message" \in DOMAIN Underlying(c)
                   THEN Underlying(c).message
                   ELSE "Unknown error occurred"

C2_Witness ==
    \E c \in DOMAIN calls :
        /\ Done(c)
        /\ client.baseURL = <<"https:", "/", "/", "nonexistent.api.com">>
        /\ calls[c].response.failure.kind = "error"
        /\ calls[c].response.failure.message = "getaddrinfo ENOTFOUND"
        /\ calls[c].outcome.state = "rejected"
        /\ calls[c].outcome.reason.message = "getaddrinfo ENOTFOUND"

\* C3: a call returns a value if and only if the status is 200 and the body
\* decodes as JSON, and the value is the decoded body.
C3_ValueIffOkAndJson ==
    \A c \in DOMAIN calls :
        Done(c) =>
            /\ calls[c].outcome.state = "fulfilled" <=>
                   /\ calls[c].response.statusCode = 200
                   /\ calls[c].response.hasBody
                   /\ calls[c].response.body \in JsonTexts
            /\ calls[c].outcome.state = "fulfilled" =>
                   /\ calls[c].outcome.value = JsonParse(calls[c].response.body).value
                   /\ (calls[c].response.body = "null" => calls[c].outcome.value = Null)
                   /\ (calls[c].response.body = "[]" =>
                           calls[c].outcome.value = [kind |-> "array", items |-> <<>>])
                   /\ (calls[c].response.body = "{\"id\":\"abc\"}" =>
                           calls[c].outcome.value = [kind |-> "object", id |-> "abc"])

C3_Witness ==
    \E c \in DOMAIN calls :
        /\ Done(c)
        /\ calls[c].response.statusCode = 200
        /\ calls[c].response.body = "{\"message\":\"maintenance\"}"
        /\ calls[c].outcome = Fulfilled([kind |-> "object", message |-> "maintenance"])

\* C4, as claimed: every call issues exactly one GET request, whatever its
\* outcome.
C4_ExactlyOneRequest ==
    \A c \in DOMAIN calls : calls[c].phase # "idle" => calls[c].sent = 1

\* C4, amended: a call never issues more than one GET request and none after
\* a failure; it issues exactly one unless it fails before sending, which
\* happens when the URL does not resolve or the request options are rejected.
C4_AtMostOneRequest ==
    \A c \in DOMAIN calls :
        /\ calls[c].sent <= 1
        /\ calls[c].phase \in {"headers", "body"} => calls[c].sent = 1
        /\ Done(c) =>
               (calls[c].sent = 1 <=> BaseParses(client.baseURL) /\ client.timeout >= 0)

C4_Witness ==
    \E c \in DOMAIN calls :
        /\ Done(c)
        /\ calls[c].sent = 1
        /\ calls[c].response.failure = HeadersTimeoutError
        /\ calls[c].outcome.state = "rejected"

Range(f) == {f[i] : i \in DOMAIN f}

\* The entries of a parameter object that are neither undefined nor null,
\* as name-value pairs of strings.
DefinedPairs(entries) ==
    {[name |-> e.key, value |-> StringOf(e.value)] :
        e \in {x \in Range(entries) : x.value # Undefined /\ x.value # Null}}

\* C5, as claimed: the query parameters of the constructed URL are exactly
\* the entries of the parameter object whose value is neither undefined nor
\* null, each with the string form of its value.
C5_QueryIsDefinedEntries ==
    \A c \in DOMAIN calls :
        LET desc == Catalog(calls[c].method, calls[c].args)
        IN  (calls[c].phase # "idle" /\ calls[c].url.ok /\ desc.hasParams) =>
                Range(ParseQuery(calls[c].url.search)) = DefinedPairs(desc.params)

\* C6: the promise of a catalog method settles as makeRequest's promise
\* does: with the same value, or with the same error, not wrapped.
C6_CatalogPassesThrough ==
    \A c \in DOMAIN calls :
        /\ calls[c].outcome = calls[c].result
        /\ Done(c) => calls[c].outcome.state \in {"fulfilled", "rejected"}
        /\ (Done(c) /\ calls[c].response.statusCode \notin {0, 200}) =>
               /\ calls[c].outcome.state = "rejected"
               /\ calls[c].outcome.reason.kind = "object"
               /\ calls[c].outcome.reason.status = calls[c].response.statusCode

C6_Witness ==
    \E c \in DOMAIN calls :
        /\ Done(c)
        /\ calls[c].result.state = "rejected"
        /\ calls[c].result.reason.message = "HTTP 500: Request Failed"
        /\ calls[c].outcome = calls[c].result

\* The outcome a call has on its own: from the client's configuration, and
\* from what the transport delivered to this call.
OwnOutcome(c) ==
    IF ~BaseParses(client.baseURL) THEN Rejected(TypeErrorInvalidURL)
    ELSE IF client.timeout < 0 THEN Rejected(InvalidArgumentError)
    ELSE IF calls[c].response.failure # NoFailure THEN Rejected(Catch(calls[c].response.failure))
    ELSE IF calls[c].response.statusCode # 200
    THEN Rejected(StatusError(calls[c].response.statusCode))
    ELSE IF calls[c].response.hasBody /\ calls[c].response.body \in JsonTexts
    THEN Fulfilled(JsonParse(calls[c].response.body).value)
    ELSE Rejected(SyntaxError)

\* C7: with several calls in progress on one client, the URL and the request
\* of each call come from its own arguments and its outcome from the
\* response to its own request.
C7_CallsIndependent ==
    \A c \in DOMAIN calls :
        calls[c].phase # "idle" =>
            /\ calls[c].url = BuildURL(Catalog(calls[c].method, calls[c].args), client.baseURL)
            /\ calls[c].sent = 1 => calls[c].request = RequestOf(client, calls[c].url)
            /\ calls[c].sent = 1 => calls[c].log = <<Href(calls[c].url)>>
            /\ Done(c) => calls[c].outcome = OwnOutcome(c)

C7_Witness ==
    /\ Done("a")
    /\ Done("b")
    /\ calls["a"].method = "getEvents"
    /\ calls["b"].method = "getTeams"
    /\ calls["a"].outcome.state = "fulfilled"
    /\ calls["b"].outcome.state = "rejected"
    /\ calls["a"].request.href # calls["b"].request.href

\* C8: no call, successful or failed, changes the client's base address,
\* timeout or user agent.
C8_ConfigNeverChanges == [][client' = client]_vars

C8_Witness ==
    \E c \in DOMAIN calls :
        /\ Done(c)
        /\ calls[c].response.failure = HeadersTimeoutError
        /\ options.timeout = Num(5000)
        /\ client = MotoGPClient(options)

\* C9, as claimed: a call has returned or failed by the time the configured
\* timeout has elapsed since its request was issued.
C9_CompletesWithinTimeout ==
    \A c \in DOMAIN calls :
        calls[c].phase \in {"headers", "body"} => Within(calls[c].elapsed, client.timeout)

\* C9, amended: the wait for the headers and the wait for the body are each
\* limited by the configured timeout, passed as headersTimeout and as
\* bodyTimeout; the call as a whole is not limited by it.
C9_EachWaitWithinTimeout ==
    \A c \in DOMAIN calls :
        calls[c].phase \in {"headers", "body"} =>
            /\ calls[c].request.headersTimeout = client.timeout
            /\ calls[c].request.bodyTimeout = client.timeout
            /\ Within(calls[c].wait, client.timeout)
            /\ calls[c].phase = "headers" => calls[c].elapsed = calls[c].wait

C9_Witness ==
    \E c \in DOMAIN calls :
        /\ calls[c].phase = "body"
        /\ Expired(calls[c].wait, client.timeout)
        /\ ~Within(calls[c].elapsed, client.timeout)

-----------------------------------------------------------------------------
(* Properties of the construction *)

\* The configuration a call of slot c has used: its URL is built on the base
\* URL, and the request it has sent carries the timeout, as headersTimeout
\* and as bodyTimeout, and the user agent.
Uses(c, baseURL, timeout, userAgent) ==
    /\ calls[c].url = BuildURL(Catalog(calls[c].method, calls[c].args), baseURL)
    /\ calls[c].sent = 1 =>
           /\ calls[c].request.headersTimeout = timeout
           /\ calls[c].request.bodyTimeout = timeout
           /\ calls[c].request.userAgent = userAgent

Supplied(v) == v # Undefined
SuppliedNotEmpty(v) == v # Undefined /\ v # Str(<<>>) /\ v # Num(0)

\* C11 as stated: an omitted option takes its default, and a supplied one is
\* the value every request of the client uses.
C11_SuppliedOptionsAreUsed ==
    \A c \in DOMAIN calls :
        calls[c].phase # "idle" =>
            Uses(c,
                 IF Supplied(options.baseURL) THEN options.baseURL.str ELSE DefaultBaseURL,
                 IF Supplied(options.timeout) THEN options.timeout.num ELSE 10000,
                 IF Supplied(options.userAgent) THEN options.userAgent.str
                 ELSE <<DefaultUserAgent>>)

\* C11, amended: an option that is omitted, or supplied as the empty string
\* or as 0, takes its default; any other supplied value is the one every
\* request of the client uses.
C11_NonEmptyOptionsAreUsed ==
    \A c \in DOMAIN calls :
        calls[c].phase # "idle" =>
            Uses(c,
                 IF SuppliedNotEmpty(options.baseURL) THEN options.baseURL.str
                 ELSE DefaultBaseURL,
                 IF SuppliedNotEmpty(options.timeout) THEN options.timeout.num ELSE 10000,
                 IF SuppliedNotEmpty(options.userAgent) THEN options.userAgent.str
                 ELSE <<DefaultUserAgent>>)

C11_Witness ==
    \E c \in DOMAIN calls :
        /\ calls[c].sent = 1
        /\ options.timeout = Num(5000)
        /\ options.userAgent = Str(<<"Test-Client/1.0.0">>)
        /\ calls[c].request.headersTimeout = 5000
        /\ calls[c].request.userAgent = <<"Test-Client/1.0.0">>
        /\ calls[c].url.host = "custom.api.com"

\* C12 as stated: whatever timeout option the constructor was given, the
\* timeout the client holds is an integer greater than 0.
C12_TimeoutPositive == client.timeout \in Nat \ {0}

-----------------------------------------------------------------------------
(* Properties of the helper functions *)

\* The helper fn has been called and has returned.
Called(fn) == helper.fn = fn /\ helper.done

AllDigits(s) == \A i \in 1..Len(s) : IsDigit(s[i])

\* A decimal integer, with or without a minus sign, and its value.
IsInteger(s) ==
    /\ s # <<>>
    /\ IF Head(s) = "-" THEN Tail(s) # <<>> /\ AllDigits(Tail(s)) ELSE AllDigits(s)

IntegerValue(s) == IF Head(s) = "-" THEN -DigitsValue(Tail(s)) ELSE DigitsValue(s)

\* The components of a time string: what precedes the colon, what lies
\* between the colon and the first dot, and what follows that dot.
ColonForm(s) == [i \in 1..Len(s) |-> IF s[i] = "'" THEN ":" ELSE s[i]]
ColonCount(s) == Cardinality({i \in 1..Len(s) : ColonForm(s)[i] = ":"})
MinutesPart(s) == Before(ColonForm(s), ":")
SecondsPart(s) == Before(After(ColonForm(s), ":"), ".")
HasFraction(s) == IndexOf(After(ColonForm(s), ":"), ".") # 0
FractionPart(s) == After(After(ColonForm(s), ":"), ".")

\* C13: for minutes >= 0, 0 <= seconds < 60 and 0 <= milliseconds < 1000,
\* parsing the string msToTimeString makes of
\* n = minutes*60000 + seconds*1000 + milliseconds gives n again.
C13_ParseOfFormatIsIdentity ==
    Called("msToTimeString") =>
        parseTimeToMs(helper.result.str) = helper.args[1].num

C13_Witness ==
    /\ Called("msToTimeString")
    /\ helper.args[1].num = 60009
    /\ helper.result.str = <<"1", ":", "0", "0", ".", "0", "0", "9">>
    /\ parseTimeToMs(helper.result.str) = 60009

\* A string of the form M:SS.mmm: minutes without leading zeros, two-digit
\* seconds from 00 to 59, three-digit milliseconds.
IsTimeForm(s) ==
    /\ ColonCount(s) = 1 /\ IndexOf(s, ":") # 0
    /\ MinutesPart(s) # <<>> /\ AllDigits(MinutesPart(s))
    /\ Len(MinutesPart(s)) > 1 => Head(MinutesPart(s)) # "0"
    /\ Len(SecondsPart(s)) = 2 /\ AllDigits(SecondsPart(s))
    /\ DigitsValue(SecondsPart(s)) <= 59
    /\ HasFraction(s)
    /\ Len(FractionPart(s)) = 3 /\ AllDigits(FractionPart(s))

\* C14: for every time string s of the form M:SS.mmm, formatting the
\* milliseconds parseTimeToMs reads from s gives s again.
C14_FormatOfParseIsIdentity ==
    Called("parseTimeToMs") /\ IsTimeForm(helper.args[1].str) =>
        msToTimeString(helper.result.num) = helper.args[1].str

C14_Witness ==
    /\ Called("parseTimeToMs")
    /\ helper.args[1].str = <<"1", ":", "2", "3", ".", "4", "5", "6">>
    /\ helper.result = Num(83456)
    /\ msToTimeString(83456) = helper.args[1].str

\* C15: for an input with exactly one colon (apostrophes counted as colons),
\* an integer minutes part and an integer seconds part, the result is
\* minutes*60000 + seconds*1000 + milliseconds; milliseconds is 0 without
\* fraction, and else the fraction's digits padded on the right with zeros to
\* three digits.
C15_ParsedValue ==
    LET s == helper.args[1].str
    IN  /\ Called("parseTimeToMs")
        /\ ColonCount(s) = 1
        /\ IsInteger(MinutesPart(s)) /\ IsInteger(SecondsPart(s))
        /\ AllDigits(FractionPart(s))
        => helper.result.num =
               IntegerValue(MinutesPart(s)) * 60000
                   + IntegerValue(SecondsPart(s)) * 1000
                   + (IF FractionPart(s) = <<>> THEN 0
                      ELSE DigitsValue(FractionPart(s)
                               \o [i \in 1..(3 - Len(FractionPart(s))) |-> "0"]))

C15_Witness ==
    /\ Called("parseTimeToMs")
    /\ helper.args[1].str = <<"1", ":", "2", "3", ".", "5">>
    /\ helper.result = Num(83500)

\* An input that fails to parse: its colon count is not one, or its minutes
\* or seconds component is empty or no number, or its fraction is no number.
FailsToParse(s) ==
    \/ ColonCount(s) # 1
    \/ ~IsInteger(MinutesPart(s))
    \/ ~IsInteger(SecondsPart(s))
    \/ ~AllDigits(FractionPart(s))

\* C16 as stated: parseTimeToMs returns 0 for every input that fails to
\* parse.
C16_ZeroOnParseFailure ==
    Called("parseTimeToMs") /\ FailsToParse(helper.args[1].str) =>
        helper.result = Num(0)

\* C17: for ms >= 0, msToTimeString(ms) is minutes, a colon, two digits of
\* seconds, a dot and three digits of milliseconds, with
\* minutes = floor(ms/60000) unpadded, seconds = floor((ms mod 60000)/1000)
\* between 00 and 59, and milliseconds = ms mod 1000.
C17_FormatShape ==
    LET ms == helper.args[1].num
        r == helper.result.str
    IN  Called("msToTimeString") /\ ms >= 0 =>
            /\ ColonCount(r) = 1 /\ IndexOf(r, ":") # 0 /\ HasFraction(r)
            /\ MinutesPart(r) # <<>> /\ AllDigits(MinutesPart(r))
            /\ Len(MinutesPart(r)) > 1 => Head(MinutesPart(r)) # "0"
            /\ DigitsValue(MinutesPart(r)) = ms \div 60000
            /\ Len(SecondsPart(r)) = 2 /\ AllDigits(SecondsPart(r))
            /\ DigitsValue(SecondsPart(r)) = (ms % 60000) \div 1000
            /\ DigitsValue(SecondsPart(r)) \in 0..59
            /\ Len(FractionPart(r)) = 3 /\ AllDigits(FractionPart(r))
            /\ DigitsValue(FractionPart(r)) = ms % 1000

C17_Witness ==
    /\ Called("msToTimeString")
    /\ helper.args[1].num = 123 * 60000 + 59 * 1000 + 45
    /\ helper.result.str = <<"1", "2", "3", ":", "5", "9", ".", "0", "4", "5">>

\* C18: formatLapTime(s) has the length of s, a colon wherever s has an
\* apostrophe and the character of s everywhere else; a string without
\* apostrophe is returned unchanged.
C18_ApostrophesBecomeColons ==
    LET s == helper.args[1].str
        r == helper.result.str
    IN  Called("formatLapTime") =>
            /\ Len(r) = Len(s)
            /\ \A i \in 1..Len(s) : r[i] = (IF s[i] = "'" THEN ":" ELSE s[i])
            /\ (\A i \in 1..Len(s) : s[i] # "'") => r = s

C18_Witness ==
    /\ Called("formatLapTime")
    /\ helper.args[1].str = <<"1", "'", "2", "3", "'", "4", "5", "6">>
    /\ helper.result.str = <<"1", ":", "2", "3", ":", "4", "5", "6">>

\* The letters and digits of a name, the letters in upper case.
RECURSIVE UpperAlnum(_)
UpperAlnum(s) ==
    IF s = <<>> THEN <<>>
    ELSE LET ch == Head(s)
         IN  (IF IsDigit(ch) \/ IsUpper(ch) THEN <<ch>>
              ELSE IF IsLower(ch) THEN toUpperCase(<<ch>>)
              ELSE <<>>) \o UpperAlnum(Tail(s))

\* C19: getCategoryId(name) is the MotoGP, Moto2, Moto3 or MotoE identifier
\* when the letters and digits of name, in upper case, are MOTOGP, MOTO2,
\* MOTO3 or MOTOE, and is absent for every other name; names with the same
\* letters and digits, whatever their case, get the same result.
C19_CategoryIdOfNormalizedName ==
    LET name == helper.args[1].str
        normalized == UpperAlnum(name)
    IN  Called("getCategoryId") =>
            /\ helper.result =
                   (IF normalized = <<"M", "O", "T", "O", "G", "P">>
                    THEN Str("737ab122-76e1-4081-bedb-334caaa18c70")
                    ELSE IF normalized = <<"M", "O", "T", "O", "2">>
                    THEN Str("ea854a67-73a4-4a28-ac77-d67b3b2a530a")
                    ELSE IF normalized = <<"M", "O", "T", "O", "3">>
                    THEN Str("1ab203aa-e292-4842-8bed-971911357af1")
                    ELSE IF normalized = <<"M", "O", "T", "O", "E">>
                    THEN Str("cf196668-f900-4116-af79-810b91828a37")
                    ELSE Undefined)
            /\ \A other \in CategoryNames :
                   UpperAlnum(other) = normalized =>
                       getCategoryId(other) = helper.result

C19_Witness ==
    /\ Called("getCategoryId")
    /\ helper.args[1].str = <<"m", "o", "t", "o", "-", "g", "p">>
    /\ helper.result = Str(CATEGORY_IDS.MOTOGP)

\* s contains sub as a substring, the case of the letters ignored.
ContainsIgnoringCase(s, sub) ==
    \E i \in 0..(Len(s) - Len(sub)) :
        toUpperCase(SubSeq(s, i + 1, i + Len(sub))) = toUpperCase(sub)

\* The category's name, or its acronym when it has one, contains the name.
IsMatch(category, name) ==
    \/ ContainsIgnoringCase(category.name, name)
    \/ /\ category.acronym \notin {Undefined, Null}
       /\ ContainsIgnoringCase(category.acronym.str, name)

\* C20: findCategoryByName returns the first element of the list whose name
\* or acronym contains the name, case ignored, and an absent result when
\* there is none; the list is not modified.
C20_FirstMatchInListOrder ==
    /\ [](Called("findCategoryByName") =>
            LET list == helper.args[1].items
                name == helper.args[2].str
                matches == {i \in 1..Len(list) : IsMatch(list[i], name)}
            IN  IF matches = {} THEN helper.result = Undefined
                ELSE helper.result =
                         list[CHOOSE i \in matches : \A j \in matches : i <= j])
    /\ [][helper.fn = "findCategoryByName" => helper'.args = helper.args]_vars

C20_Witness ==
    /\ Called("findCategoryByName")
    /\ helper.args[2].str = <<"m", "o", "3">>
    /\ Len(helper.args[1].items) = 3
    /\ helper.result = helper.args[1].items[3]
    /\ ~IsMatch(helper.args[1].items[1], helper.args[2].str)
    /\ ~IsMatch(helper.args[1].items[2], helper.args[2].str)
    /\ ~ContainsIgnoringCase(helper.result.name, helper.args[2].str)

\* The names of the list are all different.
DistinctNames(list) ==
    \A i, j \in 1..Len(list) : list[i].name = list[j].name => i = j

SameIgnoringCase(a, b) == toUpperCase(a) = toUpperCase(b)

\* C21 as stated: in a list with distinct names, the search for the name of
\* an element, in any letter case, returns that element.
C21_FindsElementByItsName ==
    LET list == helper.args[1].items
        name == helper.args[2].str
    IN  Called("findCategoryByName") /\ DistinctNames(list) =>
            \A i \in 1..Len(list) :
                SameIgnoringCase(list[i].name, name) => helper.result = list[i]

\* C21, amended: the search returns that element when no element before it
\* has a name or an acronym that contains the name, and else the first of
\* the elements before it that has one.
C21_FindsElementUnlessEarlierMatch ==
    LET list == helper.args[1].items
        name == helper.args[2].str
    IN  Called("findCategoryByName") /\ DistinctNames(list) =>
            \A i \in 1..Len(list) :
                SameIgnoringCase(list[i].name, name) =>
                    LET earlier == {j \in 1..(i - 1) : IsMatch(list[j], name)}
                    IN  IF earlier = {} THEN helper.result = list[i]
                        ELSE helper.result =
                                 list[CHOOSE j \in earlier : \A k \in earlier : j <= k]

C21_Witness ==
    /\ Called("findCategoryByName")
    /\ Len(helper.args[1].items) = 3
    /\ DistinctNames(helper.args[1].items)
    /\ helper.args[2].str = <<"M", "O", "T", "O", "3">>
    /\ helper.args[1].items[3].name = <<"M", "o", "t", "o", "3">>
    /\ helper.result = helper.args[1].items[3]

-----------------------------------------------------------------------------
(* Properties of the helpers that read the clock *)

\* C22: isValidSeasonYear(year) is true exactly when
\* 2000 <= year <= currentYear + 1, currentYear being the year of the clock
\* at the moment of the call.
C22_ValidFrom2000ToNextYear ==
    Called("isValidSeasonYear") =>
        LET year == helper.args[1].num
            currentYear == FirstYear + (helper.at \div 12)
        IN  helper.result = Bool(2000 <= year /\ year <= currentYear + 1)

C22_Witness ==
    /\ Called("isValidSeasonYear")
    /\ helper.at = 13
    /\ helper.args[1].num = FirstYear + 2
    /\ helper.result = Bool(TRUE)

\* C30: with a clock that only moves forward, a year isValidSeasonYear has
\* accepted is accepted by every later call: the result for a year changes
\* at most once, from false to true.
C30_AcceptedYearsOnlyGrow ==
    [][(Called("isValidSeasonYear") /\ helper.result = Bool(TRUE))
           => helper'.result = Bool(TRUE)]_vars

C30_Witness ==
    /\ Called("isValidSeasonYear")
    /\ helper.args[1].num = FirstYear + 3
    /\ helper.result = Bool(TRUE)
    /\ helper.at > 24
    /\ ~isValidSeasonYear(helper.args[1].num, 0)

-----------------------------------------------------------------------------
(* Properties of the helpers' failures *)

\* C23: the lookup helpers never raise: for a string, getCategoryId returns
\* an identifier or undefined, formatLapTime a string and parseTimeToMs a
\* number; for a list of categories and a string, findCategoryByName returns
\* an element of the list or undefined.
C23_HelpersNeverRaise ==
    /\ Called("getCategoryId") =>
           ~IsThrown(helper.result) /\ helper.result.kind \in {"string", "undefined"}
    /\ Called("formatLapTime") =>
           ~IsThrown(helper.result) /\ helper.result.kind = "string"
    /\ Called("parseTimeToMs") =>
           /\ ~IsThrown(helper.result)
           /\ helper.result.kind = "number" /\ ~isNaN(helper.result)
    /\ Called("findCategoryByName") =>
           /\ ~IsThrown(helper.result)
           /\ \/ helper.result = Undefined
              \/ \E i \in 1..Len(helper.args[1].items) :
                     helper.result = helper.args[1].items[i]

\* A search that passes an element without acronym, and one with a null one.
C23_Witness ==
    /\ Called("findCategoryByName")
    /\ Len(helper.args[1].items) = 3
    /\ helper.args[1].items[1].acronym = Undefined
    /\ helper.args[1].items[2].acronym = Null
    /\ helper.args[2].str = <<"m", "o", "3">>
    /\ helper.result = helper.args[1].items[3]

\* C24 as stated: for every string the result of parseTimeToMs is a
\* non-negative integer, and when it is not 0 the milliseconds in it, what
\* the fraction of the string contributes, are below 1000.
C24_NonNegativeWithMillisBelow1000 ==
    LET s == helper.args[1].str
        ms == helper.result.num
    IN  Called("parseTimeToMs") =>
            /\ ms \in Nat
            /\ (/\ ms # 0
                /\ IsInteger(MinutesPart(s)) /\ IsInteger(SecondsPart(s)))
               => ms - IntegerValue(MinutesPart(s)) * 60000
                      - IntegerValue(SecondsPart(s)) * 1000 \in 0..999

-----------------------------------------------------------------------------
(* Properties of the request pipeline: failures and URLs *)

\* The call of slot c has failed with an error that has a message and no
\* status code, and has returned no value.
FailedWithoutStatus(c) ==
    /\ calls[c].outcome.state = "rejected"
    /\ "value" \notin DOMAIN calls[c].outcome
    /\ "message" \in DOMAIN calls[c].outcome.reason
    /\ calls[c].outcome.reason.message # ""
    /\ "status" \notin DOMAIN calls[c].outcome.reason

\* C25: when the status is 200 and the body is no valid JSON, the call fails
\* with an error that has a message and no status code, and no value is
\* returned.
C25_InvalidJsonFailsWithoutStatus ==
    \A c \in DOMAIN calls :
        (/\ Done(c)
         /\ calls[c].response.statusCode = 200
         /\ calls[c].response.hasBody
         /\ calls[c].response.body \notin JsonTexts)
        => FailedWithoutStatus(c) /\ calls[c].outcome.reason.name = "SyntaxError"

C25_Witness ==
    \E c \in DOMAIN calls :
        /\ Done(c)
        /\ calls[c].response.statusCode = 200
        /\ calls[c].response.body = "<html>"
        /\ calls[c].response.hasBody
        /\ calls[c].outcome = Rejected(SyntaxError)

\* C26: the wait for the headers and the wait for the body are limited by
\* the same configured timeout, and a call that exceeds either one fails with
\* an error that has a message and no status code.
C26_BothTimeoutsFailAlike ==
    \A c \in DOMAIN calls :
        /\ calls[c].sent = 1 =>
               /\ calls[c].request.headersTimeout = client.timeout
               /\ calls[c].request.bodyTimeout = client.timeout
        /\ calls[c].phase \in {"headers", "body"} => Within(calls[c].wait, client.timeout)
        /\ (Done(c) /\ calls[c].response.failure
                           \in {HeadersTimeoutError, BodyTimeoutError})
           => /\ FailedWithoutStatus(c)
              /\ calls[c].outcome.reason = calls[c].response.failure

C26_Witness ==
    \E c \in DOMAIN calls :
        /\ Done(c)
        /\ calls[c].response.statusCode = 0
        /\ calls[c].response.failure = HeadersTimeoutError
        /\ calls[c].request.headersTimeout = 5000
        /\ calls[c].request.bodyTimeout = 5000
        /\ FailedWithoutStatus(c)

\* The directory of the base URL's path, under which an endpoint resolves.
BaseDirectory(base) == SubSeq(BasePath(base), 1, Len(BasePath(base)) - 1)

SuppliedArg(v) == v # Undefined /\ v # Null

\* C27 as stated: getClassification requests the path
\* results/session/<sessionId>/classification, with a seasonYear parameter
\* exactly when seasonYear was supplied and a test parameter exactly when
\* isTest was supplied (false and 0 included), and with no query string when
\* both are omitted.
C27_ClassificationURL ==
    \A c \in DOMAIN calls :
        LET sessionId == Arg(calls[c].args, 1)
            seasonYear == Arg(calls[c].args, 2)
            isTest == Arg(calls[c].args, 3)
            url == calls[c].url
        IN  (calls[c].method = "getClassification" /\ url.ok) =>
                /\ url.path = BaseDirectory(client.baseURL)
                                  \o << <<"results">>, <<"session">>,
                                        StringOf(sessionId), <<"classification">> >>
                /\ Range(ParseQuery(url.search)) =
                       (IF SuppliedArg(seasonYear)
                        THEN {[name |-> <<"seasonYear">>, value |-> StringOf(seasonYear)]}
                        ELSE {})
                       \cup
                       (IF SuppliedArg(isTest)
                        THEN {[name |-> <<"test">>, value |-> StringOf(isTest)]}
                        ELSE {})
                /\ (~SuppliedArg(seasonYear) /\ ~SuppliedArg(isTest)) => ~url.hasSearch

\* C28: when the endpoint does not resolve against the base address, the
\* call fails before a request is sent and before the diagnostic line is
\* written, with an error that has a message and no status code.
C28_UnresolvedURLFailsBeforeSending ==
    \A c \in DOMAIN calls :
        (calls[c].phase # "idle" /\ ~calls[c].url.ok) =>
            /\ Done(c)
            /\ calls[c].sent = 0
            /\ calls[c].request = NoRequest
            /\ calls[c].log = <<>>
            /\ FailedWithoutStatus(c)

C28_Witness ==
    \E c \in DOMAIN calls :
        /\ Done(c)
        /\ client.baseURL = <<"api.motogp.com", "/", "v1", "/">>
        /\ ~calls[c].url.ok
        /\ calls[c].sent = 0
        /\ calls[c].outcome = Rejected(TypeErrorInvalidURL)

\* The fixed path segments a method's template starts with.
PathPrefix(method) ==
    CASE method = "getLiveTiming" -> << <<"timing-gateway">>, <<"livetiming-lite">> >>
      [] method = "getSeasons" -> << <<"results">>, <<"seasons">> >>
      [] method \in {"getEvents", "getEvent"} -> << <<"results">>, <<"events">> >>
      [] method \in {"getSessions", "getSession"} -> << <<"results">>, <<"sessions">> >>
      [] method = "getClassification" -> << <<"results">>, <<"session">> >>
      [] method = "getEntryList" -> << <<"event">> >>
      [] method = "getGridPositions" -> << <<"results">>, <<"event">> >>
      [] method = "getStandings" -> << <<"results">>, <<"standings">> >>
      [] method = "getStandingsFiles" -> << <<"results">>, <<"standings">>, <<"files">> >>
      [] method = "getBMWAward" -> << <<"results">>, <<"standings">>, <<"bmwaward">> >>
      [] method = "getCategories" -> << <<"categories">> >>
      [] method \in {"getBroadcastEvents", "getBroadcastEvent"} -> << <<"events">> >>
      [] method \in {"getRiders", "getRider", "getRiderStatistics",
                     "getRiderSeasonStatistics"} -> << <<"riders">> >>
      [] method = "getTeams" -> << <<"teams">> >>

IsPrefix(p, s) == Len(p) <= Len(s) /\ SubSeq(s, 1, Len(p)) = p

\* C29 as stated: whatever the identifiers, the request goes to the scheme
\* and host of the base address and its path begins with the fixed prefix of
\* the method's template under the base address.
C29_IdentifierStaysInTemplate ==
    \A c \in DOMAIN calls :
        (calls[c].phase # "idle" /\ calls[c].url.ok) =>
            /\ calls[c].url.scheme = client.baseURL[1]
            /\ calls[c].url.host = client.baseURL[4]
            /\ IsPrefix(BaseDirectory(client.baseURL) \o PathPrefix(calls[c].method),
                        calls[c].url.path)

====
